---- MODULE Spec2Model ----
(***************************************************************************)
(* Affinity Statistics Engine: the co-occurrence store (AffinityCache),    *)
(* the incremental updater that owns one store (IncrementalAffinityUpdater)*)
(* and the batch analyzer (MarketBasketAnalyzer).                          *)
(*                                                                         *)
(* Modelling conventions                                                   *)
(*  - a product id is one of the strings of Products; Python's string      *)
(*    order (used by sorted()) is Rank;                                    *)
(*  - a Python set is a duplicate-free sequence: its elements in the       *)
(*    iteration order of that set object, which the hash seed decides;     *)
(*  - a dict (defaultdict(int)) is a sequence of <<key, value>> entries in *)
(*    insertion order, so that reading a missing key inserts it;           *)
(*  - a float is the exact rational <<numerator, denominator>> in lowest   *)
(*    terms with a positive denominator;                                   *)
(*  - a DataFrame is the sequence of its rows; the empty sequence is the     *)
(*    DataFrame built from no rows: a rule table built from no rows has no *)
(*    columns, a line-item table always has its columns.                   *)
(***************************************************************************)
EXTENDS Integers, Sequences, FiniteSets, Bags, TLC

VARIABLES
    cache,           \* the updater's AffinityCache
    min_support,     \* the thresholds the updater and the analyzer were built with
    min_confidence,
    analyzer,        \* the MarketBasketAnalyzer's fields
    ret,             \* what the last call returned, or the exception it raised
    last_call,       \* the last call: its name and the number of baskets it ingested
    ingested,        \* history: the bag of the baskets ingested into the cache
    queries,         \* history: the number of queries made so far
    line_items,      \* the line-item table at hand for build_transaction_baskets
    results_df       \* the rule table at hand for find_top_affinities and get_recommendations

vars ==
    <<cache, min_support, min_confidence, analyzer, ret, last_call, ingested, queries,
      line_items, results_df>>

(* ------------------------------ bounds ------------------------------- *)

\* no more than this many queries are made on the store and the analyzer
MaxQueries == 1

\* no more than this many baskets are ever ingested into the store
MaxTransactions == 3

\* no more than this many rows in one line-item frame
MaxLineItems == 2

\* no more than this many baskets in one update_with_batch call
MaxBatch == 2

\* no more than this many rows in a rule table handed to find_top_affinities and
\* get_recommendations
MaxRules == 3

\* top_n is at most this
MaxTopN == 2

(* ------------------------------ inputs ------------------------------- *)

Products == {"A", "B", "C"}

\* Python's order on the product ids
Rank(p) == CASE p = "A" -> 1 [] p = "B" -> 2 [] p = "C" -> 3 [] OTHER -> 4

\* transaction ids are positive numbers; a row without one (None / NaN) carries NoTxn
NoTxn == 0

TransactionIds == {1, 2}

Range(s) == {s[i] : i \in DOMAIN s}

NoDup(s) == \A i, j \in DOMAIN s : s[i] = s[j] => i = j

SeqsUpTo(S, n) == UNION {[1..k -> S] : k \in 0..n}

\* every set object over the products: a set of ids with an iteration order
Baskets == {s \in SeqsUpTo(Products, Cardinality(Products)) : NoDup(s)}

\* the set objects holding exactly the ids of S
SetObjects(S) == {s \in Baskets : Range(s) = S}

Rows == [transaction_id : TransactionIds \cup {NoTxn}, product_id : Products]

LineItemFrames == SeqsUpTo(Rows, MaxLineItems)

(* ----------------------------- rationals ----------------------------- *)

RECURSIVE GCD(_, _)
GCD(a, b) == IF b = 0 THEN a ELSE GCD(b, a % b)

\* n / d as a float value, d > 0
Frac(n, d) == IF n = 0 THEN <<0, 1>> ELSE <<n \div GCD(n, d), d \div GCD(n, d)>>

Zero == Frac(0, 1)

One == Frac(1, 1)

RatLT(x, y) == x[1] * y[2] < y[1] * x[2]

RatLE(x, y) == x[1] * y[2] <= y[1] * x[2]

\* x / y for y # 0
RatDiv(x, y) == Frac(x[1] * y[2], x[2] * y[1])

(* --------------------------- defaultdict(int) ------------------------ *)

Keys(d) == {d[i][1] : i \in DOMAIN d}

\* d.get(k, 0): the value without inserting
Count(d, k) == IF k \in Keys(d) THEN (CHOOSE e \in Range(d) : e[1] = k)[2] ELSE 0

\* d[k] read on a defaultdict: a missing key is inserted with int() = 0
Touch(d, k) == IF k \in Keys(d) THEN d ELSE Append(d, <<k, 0>>)

\* d[k] += 1
Increment(d, k) ==
    [i \in DOMAIN Touch(d, k) |->
        IF Touch(d, k)[i][1] = k THEN <<k, Touch(d, k)[i][2] + 1>> ELSE Touch(d, k)[i]]

\* Python's == on two dicts: same keys with the same values, whatever the order
DictEq(d1, d2) == Range(d1) = Range(d2)

(* ------------------------------ AffinityCache ------------------------ *)

EmptyCache ==
    [total_transactions |-> 0, item_counts |-> <<>>, pair_counts |-> <<>>,
     all_products |-> {}]

\* sorted(list(basket))
Sorted(basket) == SortSeq(basket, LAMBDA x, y : Rank(x) < Rank(y))

\* sorted(S) of every set of ids S
SortedList == [S \in SUBSET Products |-> Sorted(CHOOSE s \in SetObjects(S) : TRUE)]

\* as PairsFrom, with the inner loop starting at i instead of i + 1 once the first
\* row of pairs is done
RECURSIVE PairsFromInclusive(_, _, _)
PairsFromInclusive(l, i, j) ==
    IF i > Len(l) THEN <<>>
    ELSE IF j > Len(l) THEN PairsFromInclusive(l, i + 1, i + 1)
    ELSE <<(<<l[i], l[j]>>)>> \o PairsFromInclusive(l, i, j + 1)

\* the pairs (basket_list[i], basket_list[j]), i < j, in the order of the loops
RECURSIVE PairsFrom(_, _, _)
PairsFrom(l, i, j) ==
    IF i > Len(l) THEN <<>>
    ELSE IF j > Len(l) THEN PairsFrom(l, i + 1, i + 2)
    ELSE <<(<<l[i], l[j]>>)>> \o PairsFrom(l, i, j + 1)

RECURSIVE IncrementAll(_, _)
IncrementAll(d, ks) ==
    IF ks = <<>> THEN d ELSE IncrementAll(Increment(d, Head(ks)), Tail(ks))

\* as update_with_new_transaction, without the increment of total_transactions
update_with_new_transaction_uncounted(c, basket) ==
    [total_transactions |-> c.total_transactions,
     item_counts |-> IncrementAll(c.item_counts, basket),
     pair_counts |-> IncrementAll(c.pair_counts, PairsFrom(Sorted(basket), 1, 2)),
     all_products |-> c.all_products \cup Range(basket)]

\* as update_with_new_transaction, with item_counts[item] = 1 in place of += 1
update_with_new_transaction_assigning(c, basket) ==
    [total_transactions |-> c.total_transactions + 1,
     item_counts |->
        LET touched == IncrementAll(c.item_counts, basket)
        IN  [i \in DOMAIN touched |->
                IF touched[i][1] \in Range(basket) THEN <<touched[i][1], 1>> ELSE touched[i]],
     pair_counts |-> IncrementAll(c.pair_counts, PairsFrom(Sorted(basket), 1, 2)),
     all_products |-> c.all_products \cup Range(basket)]

\* as update_with_new_transaction, with the pairs keyed in the basket's iteration
\* order instead of sorted order
update_with_new_transaction_unsorted(c, basket) ==
    [total_transactions |-> c.total_transactions + 1,
     item_counts |-> IncrementAll(c.item_counts, basket),
     pair_counts |-> IncrementAll(c.pair_counts, PairsFrom(basket, 1, 2)),
     all_products |-> c.all_products \cup Range(basket)]

update_with_new_transaction(c, basket) ==
    [total_transactions |-> c.total_transactions + 1,
     item_counts |-> IncrementAll(c.item_counts, basket),
     pair_counts |-> IncrementAll(c.pair_counts, PairsFrom(Sorted(basket), 1, 2)),
     all_products |-> c.all_products \cup Range(basket)]

\* as update_with_batch, with the counts rebuilt from the batch alone
RECURSIVE update_with_batch_rebuilding(_, _)
update_with_batch_rebuilding(c, baskets) ==
    IF baskets = <<>> THEN c
    ELSE update_with_new_transaction(
             update_with_batch_rebuilding(EmptyCache, SubSeq(baskets, 1, Len(baskets) - 1)),
             baskets[Len(baskets)])

RECURSIVE update_with_batch(_, _)
update_with_batch(c, baskets) ==
    IF baskets = <<>> THEN c
    ELSE update_with_batch(update_with_new_transaction(c, Head(baskets)), Tail(baskets))

\* as get_support, with the pair looked up under the key as given
get_support_unsorted(c, itemset) ==
    IF c.total_transactions = 0 THEN [val |-> Zero, cache |-> c, raised |-> FALSE]
    ELSE IF Len(itemset) = 1 THEN
        [val |-> Frac(Count(c.item_counts, itemset[1]), c.total_transactions),
         cache |-> [c EXCEPT !.item_counts = Touch(@, itemset[1])], raised |-> FALSE]
    ELSE IF Len(itemset) = 2 THEN
        [val |-> Frac(Count(c.pair_counts, itemset), c.total_transactions),
         cache |-> [c EXCEPT !.pair_counts = Touch(@, itemset)], raised |-> FALSE]
    ELSE [val |-> Zero, cache |-> c, raised |-> FALSE]

\* as get_support, with the count read from the dict before the test for an
\* empty store
get_support_reading_first(c, itemset) ==
    LET read == IF Len(itemset) = 1 THEN [c EXCEPT !.item_counts = Touch(@, itemset[1])]
                ELSE IF Len(itemset) = 2
                THEN [c EXCEPT !.pair_counts = Touch(@, Sorted(itemset))]
                ELSE c
    IN  IF c.total_transactions = 0 THEN [val |-> Zero, cache |-> read, raised |-> FALSE]
        ELSE IF Len(itemset) = 1 THEN
            [val |-> Frac(Count(c.item_counts, itemset[1]), c.total_transactions),
             cache |-> read, raised |-> FALSE]
        ELSE IF Len(itemset) = 2 THEN
            [val |-> Frac(Count(c.pair_counts, Sorted(itemset)), c.total_transactions),
             cache |-> read, raised |-> FALSE]
        ELSE [val |-> Zero, cache |-> c, raised |-> FALSE]

\* as get_support, without the early return on an empty store: the division by
\* total_transactions = 0 raises
get_support_unguarded(c, itemset) ==
    IF Len(itemset) \notin {1, 2} THEN [val |-> Zero, cache |-> c, raised |-> FALSE]
    ELSE IF c.total_transactions = 0
    THEN [val |-> "ZeroDivisionError",
          cache |-> IF Len(itemset) = 1
                    THEN [c EXCEPT !.item_counts = Touch(@, itemset[1])]
                    ELSE [c EXCEPT !.pair_counts = Touch(@, Sorted(itemset))],
          raised |-> TRUE]
    ELSE IF Len(itemset) = 1 THEN
        [val |-> Frac(Count(c.item_counts, itemset[1]), c.total_transactions),
         cache |-> [c EXCEPT !.item_counts = Touch(@, itemset[1])], raised |-> FALSE]
    ELSE
        [val |-> Frac(Count(c.pair_counts, Sorted(itemset)), c.total_transactions),
         cache |-> [c EXCEPT !.pair_counts = Touch(@, Sorted(itemset))], raised |-> FALSE]

\* what get_support returns, and the cache it leaves (a read of a missing key
\* of a defaultdict inserts the key)
get_support(c, itemset) ==
    IF c.total_transactions = 0 THEN [val |-> Zero, cache |-> c, raised |-> FALSE]
    ELSE IF Len(itemset) = 1 THEN
        [val |-> Frac(Count(c.item_counts, itemset[1]), c.total_transactions),
         cache |-> [c EXCEPT !.item_counts = Touch(@, itemset[1])], raised |-> FALSE]
    ELSE IF Len(itemset) = 2 THEN
        [val |-> Frac(Count(c.pair_counts, Sorted(itemset)), c.total_transactions),
         cache |-> [c EXCEPT !.pair_counts = Touch(@, Sorted(itemset))], raised |-> FALSE]
    ELSE [val |-> Zero, cache |-> c, raised |-> FALSE]

\* as get_confidence, dividing by the consequent's support
get_confidence_by_consequent(c, antecedent, consequent) ==
    LET support_b == get_support(c, <<consequent>>)
        support_ab == get_support(support_b.cache, <<antecedent, consequent>>)
    IN  IF support_b.val = Zero
        THEN [val |-> Zero, cache |-> support_b.cache, raised |-> FALSE]
        ELSE [val |-> RatDiv(support_ab.val, support_b.val), cache |-> support_ab.cache,
              raised |-> FALSE]

\* as get_confidence, dividing the pair's raw count by the antecedent's support
get_confidence_of_count(c, antecedent, consequent) ==
    LET support_a == get_support(c, <<antecedent>>)
        support_ab == get_support(support_a.cache, <<antecedent, consequent>>)
    IN  IF support_a.val = Zero
        THEN [val |-> Zero, cache |-> support_a.cache, raised |-> FALSE]
        ELSE [val |-> RatDiv(Frac(Count(c.pair_counts, Sorted(<<antecedent, consequent>>)), 1),
                             support_a.val),
              cache |-> support_ab.cache, raised |-> FALSE]

get_confidence(c, antecedent, consequent) ==
    LET support_a == get_support(c, <<antecedent>>)
        support_ab == get_support(support_a.cache, <<antecedent, consequent>>)
    IN  IF support_a.val = Zero
        THEN [val |-> Zero, cache |-> support_a.cache, raised |-> FALSE]
        ELSE [val |-> RatDiv(support_ab.val, support_a.val), cache |-> support_ab.cache,
              raised |-> FALSE]

\* as get_lift, dividing the confidence by the antecedent's support
get_lift_by_antecedent(c, antecedent, consequent) ==
    LET confidence == get_confidence(c, antecedent, consequent)
        support_b == get_support(confidence.cache, <<consequent>>)
        support_a == get_support(support_b.cache, <<antecedent>>)
    IN  IF support_b.val = Zero
        THEN [val |-> Zero, cache |-> support_b.cache, raised |-> FALSE]
        ELSE [val |-> RatDiv(confidence.val, support_a.val), cache |-> support_b.cache,
              raised |-> FALSE]

get_lift(c, antecedent, consequent) ==
    LET confidence == get_confidence(c, antecedent, consequent)
        support_b == get_support(confidence.cache, <<consequent>>)
    IN  IF support_b.val = Zero
        THEN [val |-> Zero, cache |-> support_b.cache, raised |-> FALSE]
        ELSE [val |-> RatDiv(confidence.val, support_b.val), cache |-> support_b.cache,
              raised |-> FALSE]

\* one row of a rule table; the 'direction' column is a rendering of
\* (product_a, product_b) and is left out
Rule(a, b, support, confidence, lift) ==
    [product_a |-> a, product_b |-> b, support |-> support,
     confidence |-> confidence, lift |-> lift]

\* as both_below_min_confidence, discarding a pair as soon as one direction is
\* below min_confidence
either_below_min_confidence(confidence_ab, confidence_ba, min_conf) ==
    RatLT(confidence_ab, min_conf) \/ RatLT(confidence_ba, min_conf)

\* the confidence filter of the rule loops (the same text in get_updated_affinities
\* and in analyze): the pair is skipped when this holds
both_below_min_confidence(confidence_ab, confidence_ba, min_conf) ==
    RatLT(confidence_ab, min_conf) /\ RatLT(confidence_ba, min_conf)

\* as both_directions, with the second rule carrying the first direction's
\* confidence and lift
both_directions_one_metric(a, b, support, confidence_ab, lift_ab, confidence_ba, lift_ba) ==
    <<Rule(a, b, support, confidence_ab, lift_ab), Rule(b, a, support, confidence_ab, lift_ab)>>

\* the two rows that the rule loops append for a pair that passed the filters
\* (the same text in get_updated_affinities and in analyze)
both_directions(a, b, support, confidence_ab, lift_ab, confidence_ba, lift_ba) ==
    <<Rule(a, b, support, confidence_ab, lift_ab), Rule(b, a, support, confidence_ba, lift_ba)>>

\* the loop of get_updated_affinities from the i-th entry of pair_counts on
RECURSIVE affinities_loop(_, _, _, _, _)
affinities_loop(c, i, min_sup, min_conf, results) ==
    IF i > Len(c.pair_counts) THEN [val |-> results, cache |-> c, raised |-> FALSE]
    ELSE IF c.total_transactions = 0
    THEN [val |-> "ZeroDivisionError", cache |-> c, raised |-> TRUE]
    ELSE
        LET pair == c.pair_counts[i][1]
            support == Frac(c.pair_counts[i][2], c.total_transactions)
            product_a == pair[1]
            product_b == pair[2]
            confidence_ab == get_confidence(c, product_a, product_b)
            confidence_ba == get_confidence(confidence_ab.cache, product_b, product_a)
            lift_ab == get_lift(confidence_ba.cache, product_a, product_b)
            lift_ba == get_lift(lift_ab.cache, product_b, product_a)
        IN  IF RatLT(support, min_sup)
            THEN affinities_loop(c, i + 1, min_sup, min_conf, results)
            ELSE IF both_below_min_confidence(confidence_ab.val, confidence_ba.val, min_conf)
            THEN affinities_loop(confidence_ba.cache, i + 1, min_sup, min_conf, results)
            ELSE affinities_loop(lift_ba.cache, i + 1, min_sup, min_conf,
                    results \o both_directions(product_a, product_b, support,
                                               confidence_ab.val, lift_ab.val,
                                               confidence_ba.val, lift_ba.val))

get_updated_affinities(c, min_sup, min_conf) == affinities_loop(c, 1, min_sup, min_conf, <<>>)

None == "None"

\* as MaxKey, with the last of the entries with the largest value
MaxKeyLast(d) ==
    LET i == CHOOSE i \in DOMAIN d :
                 /\ \A j \in DOMAIN d : d[j][2] <= d[i][2]
                 /\ \A j \in (i + 1)..Len(d) : d[j][2] < d[i][2]
    IN  d[i][1]

\* max(d.items(), key=lambda x: x[1])[0]: the first entry with the largest value
MaxKey(d) ==
    LET i == CHOOSE i \in DOMAIN d :
                 /\ \A j \in DOMAIN d : d[j][2] <= d[i][2]
                 /\ \A j \in 1..(i - 1) : d[j][2] < d[i][2]
    IN  d[i][1]

get_statistics(c) ==
    [total_transactions |-> c.total_transactions,
     unique_products |-> Cardinality(c.all_products),
     unique_pairs |-> Len(c.pair_counts),
     most_frequent_item |-> IF c.item_counts # <<>> THEN MaxKey(c.item_counts) ELSE None,
     most_frequent_pair |-> IF c.pair_counts # <<>> THEN MaxKey(c.pair_counts) ELSE None]

(* ------------------------------ rule tables -------------------------- *)

\* DataFrame.nlargest(n, column), keep='first': the n rows with the largest values
\* of the column in descending order, rows of equal value in their order in the
\* frame; no row for n <= 0
RECURSIVE nlargest(_, _, _)
nlargest(frame, n, column) ==
    IF n <= 0 \/ frame = <<>> THEN <<>>
    ELSE LET first == CHOOSE i \in DOMAIN frame :
                          /\ \A j \in DOMAIN frame : RatLE(frame[j][column], frame[i][column])
                          /\ \A j \in 1..(i - 1) : RatLT(frame[j][column], frame[i][column])
             others == [j \in 1..(Len(frame) - 1) |->
                           IF j < first THEN frame[j] ELSE frame[j + 1]]
         IN  <<frame[first]>> \o nlargest(others, n - 1, column)

\* IncrementalAffinityUpdater.get_top_affinities on the cache c of an updater built
\* with the thresholds min_sup, min_conf
get_top_affinities(c, min_sup, min_conf, top_n) ==
    LET affinities == get_updated_affinities(c, min_sup, min_conf)
    IN  IF affinities.raised THEN affinities
        ELSE IF Len(affinities.val) = 0
        THEN [val |-> <<>>, cache |-> affinities.cache, raised |-> FALSE]
        ELSE [val |-> nlargest(affinities.val, top_n, "lift"), cache |-> affinities.cache,
              raised |-> FALSE]

(* ------------------------- line items to baskets --------------------- *)

\* the numbers of ids in increasing order
RECURSIVE Ascending(_)
Ascending(ids) ==
    IF ids = {} THEN <<>>
    ELSE LET least == CHOOSE m \in ids : \A x \in ids : m <= x
         IN  <<least>> \o Ascending(ids \ {least})

\* the keys df.groupby('transaction_id') iterates: the distinct ids in sorted
\* order; rows whose id is missing belong to no group (dropna)
GroupKeys(frame) == Ascending({frame[i].transaction_id : i \in DOMAIN frame} \ {NoTxn})

\* as GroupSets, with one basket per row instead of one per transaction id
GroupSetsPerRow(frame) == [k \in DOMAIN frame |-> {frame[k].product_id}]

\* group['product_id'].unique() of every group, as the set of its ids
GroupSets(frame) ==
    LET keys == GroupKeys(frame)
    IN  [k \in DOMAIN keys |->
            {frame[i].product_id : i \in {j \in DOMAIN frame :
                                           frame[j].transaction_id = keys[k]}}]

\* line_items['product_id'].unique() of the whole frame
ProductIds(frame) == {frame[i].product_id : i \in DOMAIN frame}

\* the lists of set objects that set(...) can build for the given id sets
SetObjectLists(sets) ==
    {bs \in [DOMAIN sets -> Baskets] : \A i \in DOMAIN sets : Range(bs[i]) = sets[i]}

(* -------------------------- MarketBasketAnalyzer --------------------- *)

\* the analyzer's fields that its methods read; a stored basket is the set of
\* its ids, since the analyzer never observes a basket's iteration order
NewAnalyzer == [total_transactions |-> 0, transaction_baskets |-> <<>>]

\* as build_transaction_baskets, with the new baskets appended to the stored ones
build_transaction_baskets_appending(an, frame) ==
    LET baskets == an.transaction_baskets \o GroupSets(frame)
    IN  [total_transactions |-> Len(baskets), transaction_baskets |-> baskets]

build_transaction_baskets(an, frame) ==
    LET baskets == GroupSets(frame)
    IN  [total_transactions |-> Len(baskets), transaction_baskets |-> baskets]

calculate_support(an, itemset) ==
    IF an.total_transactions = 0 THEN Zero
    ELSE Frac(Cardinality({i \in DOMAIN an.transaction_baskets :
                             Range(itemset) \subseteq an.transaction_baskets[i]}),
              an.total_transactions)

calculate_confidence(an, antecedent, consequent) ==
    LET support_a == calculate_support(an, <<antecedent>>)
        support_ab == calculate_support(an, <<antecedent, consequent>>)
    IN  IF support_a = Zero THEN Zero ELSE RatDiv(support_ab, support_a)

calculate_lift(an, antecedent, consequent) ==
    LET confidence == calculate_confidence(an, antecedent, consequent)
        support_b == calculate_support(an, <<consequent>>)
    IN  IF support_b = Zero THEN Zero ELSE RatDiv(confidence, support_b)

\* combinations(sorted(all_products), 2)
generate_product_pairs(an) ==
    LET all_products == UNION Range(an.transaction_baskets)
    IN  PairsFrom(SortedList[all_products], 1, 2)

\* the loop of analyze over the candidate pairs
RECURSIVE analyze_loop(_, _, _, _, _)
analyze_loop(an, pairs, min_sup, min_conf, results) ==
    IF pairs = <<>> THEN results
    ELSE
        LET product_a == Head(pairs)[1]
            product_b == Head(pairs)[2]
            support_ab == calculate_support(an, <<product_a, product_b>>)
            confidence_ab == calculate_confidence(an, product_a, product_b)
            confidence_ba == calculate_confidence(an, product_b, product_a)
        IN  IF RatLT(support_ab, min_sup)
            THEN analyze_loop(an, Tail(pairs), min_sup, min_conf, results)
            ELSE IF both_below_min_confidence(confidence_ab, confidence_ba, min_conf)
            THEN analyze_loop(an, Tail(pairs), min_sup, min_conf, results)
            ELSE analyze_loop(an, Tail(pairs), min_sup, min_conf,
                    results \o both_directions(product_a, product_b, support_ab,
                                               confidence_ab,
                                               calculate_lift(an, product_a, product_b),
                                               confidence_ba,
                                               calculate_lift(an, product_b, product_a)))

\* products_df: None, or a table that names some of the products
NoProducts == [given |-> FALSE, names |-> <<>>]

ProductNames == [given |-> TRUE, names |-> ("A" :> "name A") @@ ("B" :> "name B")]

NaN == "NaN"

\* results_df['product_a'].map(product_names), likewise for product_b
WithNames(row, product_names) ==
    [product_a |-> row.product_a, product_b |-> row.product_b, support |-> row.support,
     confidence |-> row.confidence, lift |-> row.lift,
     product_a_name |-> IF row.product_a \in DOMAIN product_names
                        THEN product_names[row.product_a] ELSE NaN,
     product_b_name |-> IF row.product_b \in DOMAIN product_names
                        THEN product_names[row.product_b] ELSE NaN]

\* analyze: the analyzer after the call and the table it returns; a DataFrame
\* built from no rows has no columns, so results_df['product_a'] raises
analyze(an, frame, products_df, min_sup, min_conf) ==
    LET built == build_transaction_baskets(an, frame)
        results == analyze_loop(built, generate_product_pairs(built), min_sup, min_conf, <<>>)
    IN  IF ~products_df.given THEN [analyzer |-> built, val |-> results, raised |-> FALSE]
        ELSE IF results = <<>> THEN [analyzer |-> built, val |-> "KeyError", raised |-> TRUE]
        ELSE [analyzer |-> built,
              val |-> [i \in DOMAIN results |-> WithNames(results[i], products_df.names)],
              raised |-> FALSE]

\* find_top_affinities: a table built from no rows has no column to sort by
find_top_affinities(table, top_n, metric) ==
    IF table = <<>> THEN [val |-> "KeyError", raised |-> TRUE]
    ELSE [val |-> nlargest(table, top_n, metric), raised |-> FALSE]

\* get_recommendations: a table built from no rows has no column 'product_a'
get_recommendations(table, product_id, top_n) ==
    IF table = <<>> THEN [val |-> "KeyError", raised |-> TRUE]
    ELSE [val |-> nlargest(SelectSeq(table, LAMBDA row : row.product_a = product_id),
                           top_n, "lift"),
          raised |-> FALSE]

(* ------------------------------- the system -------------------------- *)

\* threshold values handed to a rule query
Thresholds == {Zero, Frac(1, 2), One}

\* the defaults of the constructors: min_support = 0.01, min_confidence = 0.1
DefaultMinSupport == Frac(1, 100)

DefaultMinConfidence == Frac(1, 10)

\* the <<min_support, min_confidence>> the updater and the analyzer are built with
Configurations ==
    {<<Zero, Zero>>, <<Zero, One>>, <<DefaultMinSupport, DefaultMinConfidence>>,
     <<Frac(1, 2), Frac(1, 2)>>}

Call(op, n) == [op |-> op, baskets |-> n]

Returned(val) == [raised |-> FALSE, val |-> val]

Raised(exception) == [raised |-> TRUE, val |-> exception]

\* an updater and an analyzer built with the same thresholds
Init ==
    /\ cache = EmptyCache
    /\ \E configuration \in Configurations :
           min_support = configuration[1] /\ min_confidence = configuration[2]
    /\ analyzer = NewAnalyzer
    /\ ret = Returned(None)
    /\ last_call = Call("__init__", 0)
    /\ ingested = EmptyBag
    /\ queries = 0
    /\ line_items = <<>>
    /\ results_df = <<>>

\* the bag of the id sets of a list of set objects
BagOf(baskets) ==
    [S \in {Range(baskets[i]) : i \in DOMAIN baskets} |->
        Cardinality({i \in DOMAIN baskets : Range(baskets[i]) = S})]

\* as IngestBatch, with the batch ingested into a fresh AffinityCache
IngestBatchIntoFreshCache(op, baskets) ==
    /\ cache.total_transactions + Len(baskets) <= MaxTransactions
    /\ cache' = update_with_batch(EmptyCache, baskets)
    /\ ingested' = ingested (+) BagOf(baskets)
    /\ ret' = Returned(None)
    /\ last_call' = Call(op, Len(baskets))
    /\ UNCHANGED <<min_support, min_confidence, analyzer, queries, line_items, results_df>>

\* a call op that hands the list baskets to update_with_batch
IngestBatch(op, baskets) ==
    /\ cache.total_transactions + Len(baskets) <= MaxTransactions
    /\ cache' = update_with_batch(cache, baskets)
    /\ ingested' = ingested (+) BagOf(baskets)
    /\ ret' = Returned(None)
    /\ last_call' = Call(op, Len(baskets))
    /\ UNCHANGED <<min_support, min_confidence, analyzer, queries, line_items, results_df>>

\* a call op that hands the set object basket to update_with_new_transaction
IngestOne(op, basket) ==
    /\ cache.total_transactions < MaxTransactions
    /\ cache' = update_with_new_transaction(cache, basket)
    /\ ingested' = ingested (+) SetToBag({Range(basket)})
    /\ ret' = Returned(None)
    /\ last_call' = Call(op, 1)
    /\ UNCHANGED <<min_support, min_confidence, analyzer, queries, line_items, results_df>>

UpdateWithNewTransaction ==
    \E basket \in Baskets : IngestOne("update_with_new_transaction", basket)

\* the lists of baskets handed to update_with_batch
Batches == SeqsUpTo(Baskets, MaxBatch)

UpdateWithBatch ==
    \E baskets \in Batches : IngestBatch("update_with_batch", baskets)

\* the lists of set objects that the groupby loop can build from some frame
GroupedBaskets == UNION {SetObjectLists(GroupSets(frame)) : frame \in LineItemFrames}

\* the set objects that set(line_items['product_id'].unique()) can be for some frame
FrameBaskets == UNION {SetObjects(ProductIds(frame)) : frame \in LineItemFrames}

InitializeFromLineItems ==
    \E baskets \in GroupedBaskets : IngestBatch("initialize_from_line_items", baskets)

ProcessNewTransaction ==
    \E basket \in FrameBaskets : IngestOne("process_new_transaction", basket)

ProcessNewBatch ==
    \E baskets \in GroupedBaskets : IngestBatch("process_new_batch", baskets)

\* a query op of the store: it returns or raises result.val and leaves result.cache
Query(op, result) ==
    /\ cache' = result.cache
    /\ ret' = [raised |-> result.raised, val |-> result.val]
    /\ last_call' = Call(op, 0)
    /\ queries' = queries + 1
    /\ UNCHANGED <<min_support, min_confidence, analyzer, ingested, line_items, results_df>>

Itemsets == SeqsUpTo(Products, 2) \cup {<<"A", "B", "C">>}

GetSupport ==
    /\ queries < MaxQueries
    /\ \E itemset \in Itemsets : Query("get_support", get_support(cache, itemset))

GetConfidence ==
    /\ queries < MaxQueries
    /\ \E a, b \in Products : Query("get_confidence", get_confidence(cache, a, b))

GetLift ==
    /\ queries < MaxQueries
    /\ \E a, b \in Products : Query("get_lift", get_lift(cache, a, b))

GetUpdatedAffinities ==
    /\ queries < MaxQueries
    /\ \E min_sup, min_conf \in Thresholds :
           Query("get_updated_affinities", get_updated_affinities(cache, min_sup, min_conf))

GetCurrentAffinities ==
    /\ queries < MaxQueries
    /\ Query("get_current_affinities",
             get_updated_affinities(cache, min_support, min_confidence))

GetStatistics ==
    /\ queries < MaxQueries
    /\ Query("get_statistics",
             [val |-> get_statistics(cache), cache |-> cache, raised |-> FALSE])

GetTopAffinities ==
    /\ queries < MaxQueries
    /\ \E top_n \in 0..MaxTopN :
           Query("get_top_affinities",
                 get_top_affinities(cache, min_support, min_confidence, top_n))

Analyze ==
    /\ \E frame \in LineItemFrames, products_df \in {NoProducts, ProductNames} :
           LET result == analyze(analyzer, frame, products_df, min_support, min_confidence)
           IN  /\ analyzer' = result.analyzer
               /\ ret' = [raised |-> result.raised, val |-> result.val]
               /\ last_call' = Call("analyze", 0)
               /\ UNCHANGED <<cache, min_support, min_confidence, ingested, queries,
                               line_items, results_df>>

NextIngest ==
    \/ UpdateWithNewTransaction
    \/ UpdateWithBatch
    \/ InitializeFromLineItems
    \/ ProcessNewTransaction
    \/ ProcessNewBatch

NextQuery ==
    \/ GetSupport
    \/ GetConfidence
    \/ GetLift
    \/ GetUpdatedAffinities
    \/ GetCurrentAffinities
    \/ GetTopAffinities
    \/ GetStatistics

Next == UpdateWithNewTransaction \/ NextQuery

\* the store of one updater under ingestion and queries
Spec == Init /\ [][Next]_vars

\* an updater built with the default thresholds, under every ingestion call
InitDefault ==
    Init /\ min_support = DefaultMinSupport /\ min_confidence = DefaultMinConfidence

SpecIngest == InitDefault /\ [][NextIngest]_vars

\* one analyzer analysing one dataset after another
SpecBatch == Init /\ [][Analyze]_vars

\* the rows of the rule tables handed to find_top_affinities and get_recommendations
RuleRows ==
    {Rule(a, "C", Frac(1, 2), One, lift) :
        a \in {"A", "B"}, lift \in {Frac(3, 2), Frac(2, 1), Frac(3, 1)}}

RuleTables == SeqsUpTo(RuleRows, MaxRules)

Metrics == {"lift", "confidence", "support"}

FindTopAffinities ==
    \E top_n \in 0..MaxTopN, metric \in Metrics :
        LET result == find_top_affinities(results_df, top_n, metric)
        IN  /\ ret' = [raised |-> result.raised, val |-> result.val]
            /\ last_call' = [op |-> "find_top_affinities", baskets |-> 0,
                             top_n |-> top_n, metric |-> metric]
            /\ UNCHANGED <<cache, min_support, min_confidence, analyzer, ingested, queries,
                           line_items, results_df>>

GetRecommendations ==
    \E product_id \in Products, top_n \in 0..MaxTopN :
        LET result == get_recommendations(results_df, product_id, top_n)
        IN  /\ ret' = [raised |-> result.raised, val |-> result.val]
            /\ last_call' = [op |-> "get_recommendations", baskets |-> 0,
                             product_id |-> product_id, top_n |-> top_n]
            /\ UNCHANGED <<cache, min_support, min_confidence, analyzer, ingested, queries,
                           line_items, results_df>>

\* an analyzer with some rule table at hand
InitTables ==
    /\ cache = EmptyCache
    /\ min_support = DefaultMinSupport
    /\ min_confidence = DefaultMinConfidence
    /\ analyzer = NewAnalyzer
    /\ ret = Returned(None)
    /\ last_call = Call("__init__", 0)
    /\ ingested = EmptyBag
    /\ queries = 0
    /\ line_items = <<>>
    /\ results_df \in RuleTables

NextTables == FindTopAffinities \/ GetRecommendations

\* the ranking functions applied to a rule table
SpecTables == InitTables /\ [][NextTables]_vars

BuildTransactionBaskets ==
    /\ analyzer' = build_transaction_baskets(analyzer, line_items)
    /\ ret' = Returned(analyzer'.transaction_baskets)
    /\ last_call' = Call("build_transaction_baskets", 0)
    /\ UNCHANGED <<cache, min_support, min_confidence, ingested, queries, line_items,
                   results_df>>

\* process_new_batch on the line-item table at hand
ProcessLineItems ==
    \E baskets \in SetObjectLists(GroupSets(line_items)) :
        IngestBatch("process_new_batch", baskets)

\* an analyzer and an updater with some line-item table at hand
InitLineItems ==
    /\ cache = EmptyCache
    /\ min_support = DefaultMinSupport
    /\ min_confidence = DefaultMinConfidence
    /\ analyzer = NewAnalyzer
    /\ ret = Returned(None)
    /\ last_call = Call("__init__", 0)
    /\ ingested = EmptyBag
    /\ queries = 0
    /\ line_items \in LineItemFrames
    /\ results_df = <<>>

\* as ProcessTransactionLineItems, with one basket per transaction id of the table
ProcessTransactionLineItemsPerId ==
    \E baskets \in SetObjectLists(GroupSets(line_items)) :
        IngestBatch("process_new_transaction", baskets)

\* process_new_transaction on the line-item table at hand
ProcessTransactionLineItems ==
    \E basket \in SetObjects(ProductIds(line_items)) :
        IngestOne("process_new_transaction", basket)

NextBuild == BuildTransactionBaskets \/ ProcessLineItems \/ ProcessTransactionLineItems

\* the basket builder applied to a line-item table
SpecBuild == InitLineItems /\ [][NextBuild]_vars

(* ------------------------------ the claims --------------------------- *)

\* the sequences that list the baskets of a bag, each as often as the bag holds it
Arrangements(bag) ==
    {s \in [1..BagCardinality(bag) -> BagToSet(bag)] :
        \A S \in BagToSet(bag) : Cardinality({i \in DOMAIN s : s[i] = S}) = bag[S]}

\* a list of id sets as a list of set objects (each iterating in sorted order)
ObjectsOf(sets) == [i \in DOMAIN sets |-> SortedList[sets[i]]]

\* the store that update_with_batch builds from the empty store
Batched(sets) == update_with_batch(EmptyCache, ObjectsOf(sets))

SameCounts(c1, c2) ==
    /\ c1.total_transactions = c2.total_transactions
    /\ DictEq(c1.item_counts, c2.item_counts)
    /\ DictEq(c1.pair_counts, c2.pair_counts)

\* C1: whatever calls ingested the baskets (one at a time or in batches, the
\* baskets' sets iterated in any order), the store holds the total, the item
\* counts and the pair counts that one update_with_batch call on the empty store
\* yields for the same baskets in any order.
C1_Commutativity ==
    \A s \in Arrangements(ingested) : SameCounts(cache, Batched(s))

\* three baskets were ingested one at a time, two of them different and with a
\* shared item, the last by update_with_new_transaction
C1_Witness ==
    /\ last_call.op = "update_with_new_transaction"
    /\ cache.total_transactions = 3
    /\ {{"A", "B"}, {"B", "C"}} \subseteq BagToSet(ingested)

\* C2: for every split of the ingested baskets into B1 followed by B2, a batch
\* call on B1 followed by a batch call on B2 leaves the counts of one batch call
\* on B1 + B2, and these are the counts the store holds.
C2_IncrementalEquivalence ==
    \A s \in Arrangements(ingested) :
        LET whole == Batched(s)
        IN  /\ SameCounts(cache, whole)
            /\ \A k \in 0..Len(s) :
                   SameCounts(update_with_batch(Batched(SubSeq(s, 1, k)),
                                                ObjectsOf(SubSeq(s, k + 1, Len(s)))),
                              whole)

\* a batch call ingested baskets into a store that already held some
C2_Witness ==
    /\ last_call.op \in {"update_with_batch", "process_new_batch"}
    /\ last_call.baskets >= 1
    /\ cache.total_transactions > last_call.baskets
    /\ cache.pair_counts # <<>>

(* the rule tables the claims speak of *)

\* the five columns of a row that make the directional rule
Core(row) == Rule(row.product_a, row.product_b, row.support, row.confidence, row.lift)

Rules(table) == {Core(table[i]) : i \in DOMAIN table}

\* a table holds a rule for the unordered pair of a and b
Emitted(table, a, b) ==
    \E i \in DOMAIN table : {table[i].product_a, table[i].product_b} = {a, b}

\* the condition of the claims on a pair: enough support, and enough confidence
\* in at least one direction
Qualifies(support, confidence_ab, confidence_ba, min_sup, min_conf) ==
    /\ RatLE(min_sup, support)
    /\ RatLE(min_conf, confidence_ab) \/ RatLE(min_conf, confidence_ba)

\* the rows of a line-item table whose groups are the non-empty baskets of sets
RECURSIVE FrameOf(_, _)
FrameOf(sets, i) ==
    IF i > Len(sets) THEN <<>>
    ELSE [j \in 1..Len(SortedList[sets[i]]) |->
             [transaction_id |-> i, product_id |-> SortedList[sets[i]][j]]]
         \o FrameOf(sets, i + 1)

\* the baskets of a bag in some order
RECURSIVE Listed(_)
Listed(bag) ==
    IF BagToSet(bag) = {} THEN <<>>
    ELSE LET S == CHOOSE S \in BagToSet(bag) : TRUE
         IN  <<S>> \o Listed(bag (-) SetToBag({S}))

\* the ingested baskets in some order
History == Listed(ingested)

\* the analyzer after build_transaction_baskets on the ingested baskets' line items
Analyzed == build_transaction_baskets(NewAnalyzer, FrameOf(History, 1))

\* what analyze's loop yields for the analyzer an
BatchRules(an, min_sup, min_conf) ==
    analyze_loop(an, generate_product_pairs(an), min_sup, min_conf, <<>>)

OrderedPairs == {p \in Products \X Products : Rank(p[1]) <= Rank(p[2])}

\* C3: whenever analyze returns a table, its directional rules are the rules that
\* get_current_affinities returns on an updater with the same thresholds after the
\* same baskets were ingested.
C3_BatchEqualsIncremental ==
    (last_call.op = "analyze" /\ ~ret.raised) =>
        Rules(ret.val) =
            Rules(get_updated_affinities(Batched(analyzer.transaction_baskets),
                                         min_support, min_confidence).val)

\* C4: a call that ingests nothing but empty baskets (an empty basket, or an empty
\* batch) does not raise and leaves total_transactions, item_counts, pair_counts
\* and all_products as they were.
C4_EmptyIngestionIsNoOp ==
    [][(\A S \in BagToSet(ingested' (-) ingested) : S = {})
           => (cache' = cache /\ ~ret'.raised)]_vars

\* C5: in every state, whatever queries were made before, get_current_affinities
\* returns the rules that the rule logic yields on the counts of the baskets
\* ingested so far.
C5_QueriesLeaveRulesAlone ==
    LET now == get_updated_affinities(cache, min_support, min_confidence)
        fresh == get_updated_affinities(Batched(History), min_support, min_confidence)
    IN  ~now.raised /\ Rules(now.val) = Rules(fresh.val)

\* C6 as stated: whatever thresholds the updater and the analyzer were built
\* with, for every unordered pair of products the store's rule query and the
\* analyzer's loop emit the pair's rules if and only if its support is
\* >= min_support and one of its confidences is >= min_confidence.
C6_EmittedIffQualifies ==
    LET an == Analyzed
        table == get_updated_affinities(cache, min_support, min_confidence).val
        batch == BatchRules(an, min_support, min_confidence)
    IN  \A p \in OrderedPairs :
            p[1] # p[2] =>
                /\ Emitted(table, p[1], p[2])
                   <=> Qualifies(get_support(cache, <<p[1], p[2]>>).val,
                                 get_confidence(cache, p[1], p[2]).val,
                                 get_confidence(cache, p[2], p[1]).val,
                                 min_support, min_confidence)
                /\ Emitted(batch, p[1], p[2])
                   <=> Qualifies(calculate_support(an, <<p[1], p[2]>>),
                                 calculate_confidence(an, p[1], p[2]),
                                 calculate_confidence(an, p[2], p[1]),
                                 min_support, min_confidence)

\* the baskets {A,B}, {A,B}, {A,C} of the threshold scenario
ScenarioBaskets == ({"A", "B"} :> 2) @@ ({"A", "C"} :> 1)

\* C6 amended: whatever thresholds the updater and the analyzer were built with,
\* a pair that the query enumerates (the store: a key of pair_counts; the
\* analyzer: two distinct items of the dataset) gets its rules if and only if its
\* support is >= min_support and one of its confidences is >= min_confidence; a
\* pair that the query does not enumerate gets no rule. After {A,B}, {A,B}, {A,C}
\* with both thresholds 0.5 the A-B rules are kept and there is no A-C rule.
C6_EnumeratedEmittedIffQualifies ==
    LET an == Analyzed
        candidates == Range(generate_product_pairs(an))
        table == get_updated_affinities(cache, min_support, min_confidence).val
        batch == BatchRules(an, min_support, min_confidence)
    IN  /\ \A p \in OrderedPairs :
            /\ Emitted(table, p[1], p[2])
               <=> /\ p \in Keys(cache.pair_counts)
                   /\ Qualifies(get_support(cache, <<p[1], p[2]>>).val,
                                get_confidence(cache, p[1], p[2]).val,
                                get_confidence(cache, p[2], p[1]).val,
                                min_support, min_confidence)
            /\ Emitted(batch, p[1], p[2])
               <=> /\ p \in candidates
                   /\ Qualifies(calculate_support(an, <<p[1], p[2]>>),
                                calculate_confidence(an, p[1], p[2]),
                                calculate_confidence(an, p[2], p[1]),
                                min_support, min_confidence)
        /\ (ingested = ScenarioBaskets /\ min_support = Frac(1, 2)
               /\ min_confidence = Frac(1, 2)) =>
            /\ Emitted(table, "A", "B") /\ ~Emitted(table, "A", "C")
            /\ Emitted(batch, "A", "B") /\ ~Emitted(batch, "A", "C")

\* the scenario: an updater built with both thresholds 0.5 answered
\* get_current_affinities after {A,B}, {A,B}, {A,C} with the two A-B rules only
C6_Witness ==
    /\ last_call.op = "get_current_affinities"
    /\ min_support = Frac(1, 2) /\ min_confidence = Frac(1, 2)
    /\ ingested = ScenarioBaskets
    /\ ~ret.raised
    /\ Len(ret.val) = 2
    /\ Emitted(ret.val, "A", "B")

\* a rule table holds, for each of its rules a -> b, the rule b -> a with the same
\* support
Paired(table) ==
    \A i \in DOMAIN table : \E j \in DOMAIN table :
        /\ table[j].product_a = table[i].product_b
        /\ table[j].product_b = table[i].product_a
        /\ table[j].support = table[i].support

\* C7: whatever thresholds the updater and the analyzer were built with, every
\* rule a -> b of the store's rule table and of the analyzer's table comes with
\* the rule b -> a of the same support, and carries the confidence and the lift of
\* its own direction.
C7_RulesInPairs ==
    LET an == Analyzed
        table == get_updated_affinities(cache, min_support, min_confidence).val
        batch == BatchRules(an, min_support, min_confidence)
    IN  /\ Paired(table)
        /\ \A i \in DOMAIN table :
            /\ table[i].confidence =
                   get_confidence(cache, table[i].product_a, table[i].product_b).val
            /\ table[i].lift = get_lift(cache, table[i].product_a, table[i].product_b).val
        /\ Paired(batch)
        /\ \A i \in DOMAIN batch :
            /\ batch[i].confidence =
                   calculate_confidence(an, batch[i].product_a, batch[i].product_b)
            /\ batch[i].lift = calculate_lift(an, batch[i].product_a, batch[i].product_b)

\* an updater built with min_confidence 1 returned a rule whose confidence is
\* below 1, next to the opposite rule of another confidence
C7_Witness ==
    /\ last_call.op = "get_current_affinities"
    /\ min_confidence = One
    /\ ~ret.raised
    /\ \E i, j \in DOMAIN ret.val :
        /\ RatLT(ret.val[i].confidence, One)
        /\ ret.val[j].product_a = ret.val[i].product_b
        /\ ret.val[j].product_b = ret.val[i].product_a
        /\ ret.val[j].confidence = One

\* C8: every item's count is at most total_transactions, and the support of
\* every single item lies between 0 and 1.
C8_ItemCountBounded ==
    \A X \in Products :
        /\ Count(cache.item_counts, X) <= cache.total_transactions
        /\ RatLE(Zero, get_support(cache, <<X>>).val)
        /\ RatLE(get_support(cache, <<X>>).val, One)

\* an item is in every one of several ingested baskets, another in only some
C8_Witness ==
    /\ cache.total_transactions >= 2
    /\ \E X, Y \in Products :
        /\ Count(cache.item_counts, X) = cache.total_transactions
        /\ Count(cache.item_counts, Y) > 0
        /\ Count(cache.item_counts, Y) < cache.total_transactions

\* C9: every pair's count is at most the count of each of its two items, and
\* the pair's support is at most the support of each of its two items.
C9_PairCountBounded ==
    \A p \in OrderedPairs :
        /\ Count(cache.pair_counts, p) <= Count(cache.item_counts, p[1])
        /\ Count(cache.pair_counts, p) <= Count(cache.item_counts, p[2])
        /\ RatLE(get_support(cache, <<p[1], p[2]>>).val, get_support(cache, <<p[1]>>).val)
        /\ RatLE(get_support(cache, <<p[1], p[2]>>).val, get_support(cache, <<p[2]>>).val)

\* a pair was counted twice, one of its items more often than the pair
C9_Witness ==
    \E p \in OrderedPairs :
        /\ Count(cache.pair_counts, p) = 2
        /\ Count(cache.item_counts, p[1]) = 3
        /\ Count(cache.item_counts, p[2]) = 2

\* C10: for every item a of nonzero support and every item b, the confidence of
\* a -> b lies between 0 and 1, in the store and in the analyzer.
C10_ConfidenceBounded ==
    LET an == Analyzed
    IN  \A a, b \in Products :
            /\ get_support(cache, <<a>>).val # Zero =>
                /\ RatLE(Zero, get_confidence(cache, a, b).val)
                /\ RatLE(get_confidence(cache, a, b).val, One)
            /\ calculate_support(an, <<a>>) # Zero =>
                /\ RatLE(Zero, calculate_confidence(an, a, b))
                /\ RatLE(calculate_confidence(an, a, b), One)

\* get_confidence returned a confidence strictly between 0 and 1
C10_Witness ==
    /\ last_call.op = "get_confidence"
    /\ ~ret.raised
    /\ RatLT(Zero, ret.val) /\ RatLT(ret.val, One)

\* no ingested basket holds all the ids of S
Unseen(S) == \A B \in BagToSet(ingested) : ~(S \subseteq B)

\* C11: in every state, the empty store included, get_support, get_confidence and
\* get_lift return without raising; the support is 0 when total_transactions is 0
\* or the item or pair was never ingested, the confidence of a -> b is 0 when the
\* support of a is 0 or a or the pair was never ingested, and the lift of a -> b
\* is 0 when the support of b is 0 or the pair was never ingested.
C11_ZeroNotError ==
    /\ \A itemset \in Itemsets :
        LET support == get_support(cache, itemset)
        IN  /\ ~support.raised
            /\ (cache.total_transactions = 0
                \/ (Len(itemset) \in {1, 2} /\ Unseen(Range(itemset))))
               => support.val = Zero
    /\ \A a, b \in Products :
        LET confidence == get_confidence(cache, a, b)
            lift == get_lift(cache, a, b)
        IN  /\ ~confidence.raised /\ ~lift.raised
            /\ (get_support(cache, <<a>>).val = Zero \/ Unseen({a, b}))
               => confidence.val = Zero
            /\ (get_support(cache, <<b>>).val = Zero \/ Unseen({a, b})) => lift.val = Zero

\* get_lift returned 0 on a store that holds baskets, none of them with the pair
C11_Witness ==
    /\ last_call.op = "get_lift"
    /\ cache.total_transactions >= 2
    /\ ~ret.raised
    /\ ret.val = Zero
    /\ \E X \in Products : Unseen({X}) /\ X \in Keys(cache.item_counts)

\* C12: in every state, the support of every itemset that has neither one nor two
\* items is 0, from the store's get_support and from the analyzer's
\* calculate_support.
C12_OtherArityIsZero ==
    \A itemset \in {i \in Itemsets : Len(i) \notin {1, 2}} :
        /\ get_support(cache, itemset).val = Zero
        /\ calculate_support(Analyzed, itemset) = Zero

\* C13: analyze completes normally, and with an empty table when no pair
\* qualifies, whether or not a product-name table is supplied; so do
\* get_current_affinities and get_top_affinities on the store built from the same
\* baskets.
C13_EmptyNotError ==
    last_call.op = "analyze" =>
        /\ ~ret.raised
        /\ ~get_top_affinities(Batched(analyzer.transaction_baskets),
                               min_support, min_confidence, MaxTopN).raised
        /\ BatchRules(analyzer, min_support, min_confidence) = <<>> => ret.val = <<>>

\* row i of the table comes before row j in descending order of the column, rows
\* of equal value in table order
Precedes(table, column, i, j) ==
    \/ RatLT(table[j][column], table[i][column])
    \/ table[i][column] = table[j][column] /\ i < j

\* the first n rows of the table in that order
Top(table, n, column) ==
    LET place(i) == 1 + Cardinality({j \in DOMAIN table : Precedes(table, column, j, i)})
        size == IF n < Len(table) THEN n ELSE Len(table)
    IN  [r \in 1..size |-> table[CHOOSE i \in DOMAIN table : place(i) = r]]

Column(table, column) == [i \in DOMAIN table |-> table[i][column]]

\* C14: find_top_affinities returns min(top_n, |rules|) rules: the rules of the
\* table in descending order of the metric, rules of equal metric in table order,
\* cut after top_n; for the lifts 3, 1.5, 2 and top_n = 2 these are the lifts 3, 2.
C14_TopAffinities ==
    last_call.op = "find_top_affinities" =>
        /\ ~ret.raised
        /\ ret.val = Top(results_df, last_call.top_n, last_call.metric)
        /\ (/\ Column(results_df, "lift") = <<Frac(3, 1), Frac(3, 2), Frac(2, 1)>>
            /\ last_call.top_n = 2 /\ last_call.metric = "lift")
           => Column(ret.val, "lift") = <<Frac(3, 1), Frac(2, 1)>>

\* C15: get_recommendations returns at most top_n rows of the table, each with
\* product_a equal to the given item, in descending order of lift, and no omitted
\* row of that item has a larger lift than a returned one.
C15_Recommendations ==
    last_call.op = "get_recommendations" =>
        /\ ~ret.raised
        /\ Len(ret.val) <= last_call.top_n
        /\ \A i \in DOMAIN ret.val : ret.val[i].product_a = last_call.product_id
        /\ \A i, j \in DOMAIN ret.val : i < j => RatLE(ret.val[j].lift, ret.val[i].lift)
        /\ \A row \in Range(results_df) :
               row.product_a = last_call.product_id =>
                   LET returned == Cardinality({i \in DOMAIN ret.val : ret.val[i] = row})
                       held == Cardinality({i \in DOMAIN results_df : results_df[i] = row})
                   IN  /\ returned <= held
                       /\ returned < held =>
                              \A i \in DOMAIN ret.val : RatLE(row.lift, ret.val[i].lift)
        /\ \A i \in DOMAIN ret.val : ret.val[i] \in Range(results_df)

\* the transaction identifiers of the rows of the line-item table at hand
Identifiers == {line_items[i].transaction_id : i \in DOMAIN line_items} \ {NoTxn}

\* the item identifiers of the rows of transaction id
ItemsOf(id) ==
    {line_items[i].product_id : i \in {j \in DOMAIN line_items :
                                            line_items[j].transaction_id = id}}

\* C16: build_transaction_baskets yields one basket per distinct transaction
\* identifier of the table, the basket of an identifier being the set of the item
\* identifiers of its rows; no rows give no baskets; process_new_batch ingests as
\* many baskets as there are identifiers.
C16_OneBasketPerTransaction ==
    /\ last_call.op = "build_transaction_baskets" =>
        /\ analyzer.total_transactions = Cardinality(Identifiers)
        /\ Len(analyzer.transaction_baskets) = Cardinality(Identifiers)
        /\ \E f \in [DOMAIN analyzer.transaction_baskets -> Identifiers] :
            /\ \A k, l \in DOMAIN f : f[k] = f[l] => k = l
            /\ \A k \in DOMAIN f : analyzer.transaction_baskets[k] = ItemsOf(f[k])
        /\ line_items = <<>> => analyzer.transaction_baskets = <<>>
    /\ last_call.op = "process_new_batch" => last_call.baskets = Cardinality(Identifiers)

\* two line items of one transaction with the same item gave one singleton basket
C16_Witness ==
    /\ last_call.op = "build_transaction_baskets"
    /\ Len(line_items) = 2
    /\ line_items[1] = line_items[2]
    /\ line_items[1].transaction_id # NoTxn
    /\ analyzer.transaction_baskets = <<{line_items[1].product_id}>>

\* 1 if the condition holds, else 0
Delta(condition) == IF condition THEN 1 ELSE 0

\* C17: a step that ingests one basket adds 1 to total_transactions, adds 1 to the
\* count of each item of the basket and puts the item in all_products, adds 1 to
\* the count of the sorted pair of any two distinct items of the basket, and
\* leaves every other count as it was; a basket of fewer than two items leaves
\* pair_counts unchanged.
C17_OneBasketEffect ==
    [][BagCardinality(ingested' (-) ingested) = 1 =>
        LET basket == CHOOSE S \in BagToSet(ingested' (-) ingested) : TRUE
        IN  /\ cache'.total_transactions = cache.total_transactions + 1
            /\ cache'.all_products = cache.all_products \cup basket
            /\ Keys(cache'.item_counts) = Keys(cache.item_counts) \cup basket
            /\ \A x \in Products :
                   Count(cache'.item_counts, x)
                       = Count(cache.item_counts, x) + Delta(x \in basket)
            /\ Keys(cache'.pair_counts) \subseteq Products \X Products
            /\ \A p \in Products \X Products :
                   Count(cache'.pair_counts, p)
                       = Count(cache.pair_counts, p)
                         + Delta(Rank(p[1]) < Rank(p[2]) /\ {p[1], p[2]} \subseteq basket)
            /\ Cardinality(basket) < 2 => cache'.pair_counts = cache.pair_counts
      ]_vars

\* process_new_transaction ingested the basket {A, B} a second time
C17_Witness ==
    /\ last_call.op = "process_new_transaction"
    /\ ingested = SetToBag({{"A", "B"}}) (+) SetToBag({{"A", "B"}})
    /\ Count(cache.pair_counts, <<"A", "B">>) = 2

TwoBaskets == SetToBag({{"A", "B"}, {"A", "B", "C"}})

\* C19: after the baskets {A,B} and {A,B,C}, ingested in any way into the empty
\* store, total_transactions is 2, item_counts is {A:2, B:2, C:1}, pair_counts is
\* {(A,B):2, (A,C):1, (B,C):1}, the supports of {A,B} and {A,C} are 1 and 1/2 and
\* the confidences of A -> B and A -> C are 1 and 1/2.
C19_TwoBasketScenario ==
    ingested = TwoBaskets =>
        /\ cache.total_transactions = 2
        /\ DictEq(cache.item_counts, <<(<<"A", 2>>), (<<"B", 2>>), (<<"C", 1>>)>>)
        /\ DictEq(cache.pair_counts,
                  <<(<<(<<"A", "B">>), 2>>), (<<(<<"A", "C">>), 1>>),
                    (<<(<<"B", "C">>), 1>>)>>)
        /\ get_support(cache, <<"A", "B">>).val = One
        /\ get_support(cache, <<"A", "C">>).val = Frac(1, 2)
        /\ get_confidence(cache, "A", "B").val = One
        /\ get_confidence(cache, "A", "C").val = Frac(1, 2)

\* the two baskets were ingested one at a time, {A,B,C} iterating as C, A, B
C19_Witness ==
    /\ ingested = TwoBaskets
    /\ last_call.op = "update_with_new_transaction"
    /\ Keys(cache.item_counts) = {"A", "B", "C"}
    /\ cache.item_counts[1][1] = "C"

\* C20: in every state and for all items a and b, get_support of (a, b) and of
\* (b, a) return the same value and read the same entry of pair_counts.
C20_PairSupportSymmetric ==
    \A a, b \in Products :
        /\ get_support(cache, <<a, b>>).val = get_support(cache, <<b, a>>).val
        /\ get_support(cache, <<a, b>>).cache = get_support(cache, <<b, a>>).cache

\* get_support returned the nonzero support of a pair that co-occurred in some
\* but not all baskets
C20_Witness ==
    /\ last_call.op = "get_support"
    /\ Count(cache.pair_counts, <<"A", "B">>) = 1
    /\ cache.total_transactions = 3
    /\ ret.val = Frac(1, 3)
    /\ get_support(cache, <<"B", "A">>).val = Frac(1, 3)

\* C21: an analyzer that has analysed earlier datasets returns, for every dataset
\* and every product table, what a fresh analyzer with the same thresholds
\* returns (the same table, or the same exception), and is left with the same
\* baskets and total: nothing of the earlier runs is carried over.
C21_RunsShareNothing ==
    \A frame \in LineItemFrames, products_df \in {NoProducts, ProductNames} :
        analyze(analyzer, frame, products_df, min_support, min_confidence)
            = analyze(NewAnalyzer, frame, products_df, min_support, min_confidence)

\* an analyzer that returned rules for a dataset of two baskets is about to analyse
\* a dataset for which a fresh analyzer returns no rule
C21_Witness ==
    /\ last_call.op = "analyze"
    /\ ~ret.raised
    /\ ret.val # <<>>
    /\ analyzer.total_transactions = 2
    /\ \E frame \in LineItemFrames :
           /\ frame # <<>>
           /\ analyze(NewAnalyzer, frame, NoProducts, min_support, min_confidence).val = <<>>

\* the key k is the first of the entries of the dict d that hold d's largest count
FirstLargest(d, k) ==
    \E i \in DOMAIN d :
        /\ d[i][1] = k
        /\ \A j \in DOMAIN d : d[j][2] <= d[i][2]
        /\ \A j \in DOMAIN d : d[j][2] = d[i][2] => i <= j

\* C22: in every reachable state get_statistics yields one most_frequent_item and
\* one most_frequent_pair: None for an empty map, otherwise the first entry in
\* iteration order among those with the largest count; and a get_statistics call
\* does not raise and returns what a second call on the state it leaves returns.
C22_MostFrequentWellDefined ==
    LET statistics == get_statistics(cache)
    IN  /\ IF cache.item_counts = <<>> THEN statistics.most_frequent_item = None
           ELSE FirstLargest(cache.item_counts, statistics.most_frequent_item)
        /\ IF cache.pair_counts = <<>> THEN statistics.most_frequent_pair = None
           ELSE FirstLargest(cache.pair_counts, statistics.most_frequent_pair)
        /\ last_call.op = "get_statistics" => ~ret.raised /\ ret.val = statistics

\* get_statistics was called on a store where two items tie for the largest count
\* and a pair is recorded
C22_Witness ==
    /\ last_call.op = "get_statistics"
    /\ cache.pair_counts # <<>>
    /\ \E i, j \in DOMAIN cache.item_counts :
           /\ i < j
           /\ cache.item_counts[i][2] = cache.item_counts[j][2]
           /\ \A k \in DOMAIN cache.item_counts :
                  cache.item_counts[k][2] <= cache.item_counts[i][2]
           /\ ret.val.most_frequent_item = cache.item_counts[i][1]

\* get_statistics was called on the empty store
C22_WitnessEmpty ==
    /\ last_call.op = "get_statistics"
    /\ cache = EmptyCache
    /\ ret.val.most_frequent_item = None
    /\ ret.val.most_frequent_pair = None

\* the table at hand has a line item without a transaction identifier
MissingIdentifier == \E i \in DOMAIN line_items : line_items[i].transaction_id = NoTxn

\* C23: a call that hands a table with a line item without a transaction
\* identifier to the basket builder (build_transaction_baskets, process_new_batch,
\* process_new_transaction) raises, and leaves the store's counts and the
\* analyzer's baskets as they were.
C23_MissingIdentifierIsRejected ==
    [][(/\ MissingIdentifier
        /\ last_call'.op \in {"build_transaction_baskets", "process_new_batch",
                              "process_new_transaction"})
           => (ret'.raised /\ cache' = cache /\ analyzer' = analyzer)]_<<cache, analyzer, last_call>>

\* C24: a query (get_support, get_confidence, get_lift, get_updated_affinities,
\* get_current_affinities, get_top_affinities, get_statistics) leaves
\* total_transactions, item_counts and pair_counts with their key sets, and
\* all_products as they were, whatever its arguments.
C24_QueriesAreReadOnly ==
    [][queries' # queries =>
          /\ cache'.total_transactions = cache.total_transactions
          /\ cache'.item_counts = cache.item_counts
          /\ cache'.pair_counts = cache.pair_counts
          /\ cache'.all_products = cache.all_products]_vars

\* the unordered pairs of distinct items that were together in an ingested basket
CoOccurred ==
    {pair \in SUBSET Products :
        Cardinality(pair) = 2 /\ \E S \in BagToSet(ingested) : pair \subseteq S}

\* C25: in every reachable state get_statistics reports as unique_pairs the number
\* of unordered pairs of distinct items that were together in an ingested basket,
\* and as unique_products the number of items that were in an ingested basket.
C25_StatisticsCountIngested ==
    LET statistics == get_statistics(cache)
    IN  /\ statistics.unique_pairs = Cardinality(CoOccurred)
        /\ statistics.unique_products = Cardinality(UNION BagToSet(ingested))

\* every row of a rule table is for a pair that was together in an ingested
\* basket and carries a support above 0
PositiveSupport(table) ==
    \A i \in DOMAIN table :
        /\ RatLT(Zero, table[i].support)
        /\ {table[i].product_a, table[i].product_b} \in CoOccurred

\* C26: in every reachable state, whatever thresholds the updater and the analyzer
\* were built with (0 included) and whatever queries were made before, every rule
\* that get_updated_affinities returns on the store, and every rule that the
\* analyzer's loop yields on the ingested baskets, is for a pair that co-occurred
\* in an ingested basket and has support > 0.
C26_RulesHavePositiveSupport ==
    LET now == get_updated_affinities(cache, min_support, min_confidence)
        an == Analyzed
    IN  /\ ~now.raised => PositiveSupport(now.val)
        /\ PositiveSupport(BatchRules(an, min_support, min_confidence))

RuleQueries == {"get_updated_affinities", "get_current_affinities", "get_top_affinities"}

\* C27: in every reachable state pair_counts has an entry only if
\* total_transactions > 0, so get_updated_affinities divides by a positive total:
\* it does not raise on the state, and no rule query made so far has raised.
C27_NoDivisionByZero ==
    /\ cache.pair_counts # <<>> => cache.total_transactions > 0
    /\ ~get_updated_affinities(cache, min_support, min_confidence).raised
    /\ last_call.op \in RuleQueries => ~ret.raised

\* get_updated_affinities ran its loop over a store with recorded pairs and
\* returned rules
C27_Witness ==
    /\ last_call.op = "get_updated_affinities"
    /\ cache.pair_counts # <<>>
    /\ ~ret.raised
    /\ ret.val # <<>>

\* a pair was queried on the empty store, which stayed empty
C27_WitnessEmptyStore ==
    /\ last_call.op \in {"get_support", "get_confidence", "get_lift"}
    /\ cache = EmptyCache
    /\ ret.val = Zero

RatMul(x, y) == Frac(x[1] * y[1], x[2] * y[2])

\* support_ab / (support_a * support_b), or 0 when one of the items has support 0
LiftFormula(support_ab, support_a, support_b) ==
    IF support_a = Zero \/ support_b = Zero THEN Zero
    ELSE RatDiv(support_ab, RatMul(support_a, support_b))

\* the rows of a table for the two directions of one pair carry the same lift
SameLiftBothWays(table) ==
    \A i, j \in DOMAIN table :
        (table[i].product_a = table[j].product_b /\ table[i].product_b = table[j].product_a)
            => table[i].lift = table[j].lift

\* every bag of baskets that the store can have ingested
Histories ==
    {BagOf(ObjectsOf(sets)) : sets \in SeqsUpTo(SUBSET Products, MaxTransactions)}

\* the analyzer after build_transaction_baskets on the line items of a bag of baskets
AnalyzedFrom(bag) == build_transaction_baskets(NewAnalyzer, FrameOf(Listed(bag), 1))

\* for each bag of baskets: the analyzer's calculate_lift is symmetric and follows
\* the formula, and the rules of its loop carry the same lift both ways
CalculatedLiftSymmetric ==
    [bag \in Histories |->
        LET an == AnalyzedFrom(bag)
        IN  /\ \A a, b \in Products :
                   /\ calculate_lift(an, a, b) = calculate_lift(an, b, a)
                   /\ calculate_lift(an, a, b)
                          = LiftFormula(calculate_support(an, <<a, b>>),
                                        calculate_support(an, <<a>>),
                                        calculate_support(an, <<b>>))
            /\ \A configuration \in Configurations :
                   SameLiftBothWays(BatchRules(an, configuration[1], configuration[2]))]

\* C28: in every reachable state and for all items a, b, the store's get_lift(a, b)
\* and the get_lift(b, a) that follows it return the same value, which is
\* support(a, b) / (support(a) * support(b)), or 0 when a or b has support 0; the
\* same holds for the analyzer's calculate_lift on the ingested baskets; and the two
\* rows of a pair in a rule table carry the same lift.
C28_LiftSymmetric ==
    /\ \A a, b \in Products :
           LET lift_ab == get_lift(cache, a, b)
               lift_ba == get_lift(lift_ab.cache, b, a)
           IN  /\ lift_ab.val = lift_ba.val
               /\ lift_ab.val = LiftFormula(get_support(cache, <<a, b>>).val,
                                            get_support(cache, <<a>>).val,
                                            get_support(cache, <<b>>).val)
    /\ SameLiftBothWays(get_updated_affinities(cache, min_support, min_confidence).val)
    /\ CalculatedLiftSymmetric[ingested]

\* get_lift returned a lift other than 0 for two items of different support
C28_Witness ==
    /\ last_call.op = "get_lift"
    /\ \E a, b \in Products :
           /\ Count(cache.item_counts, a) # Count(cache.item_counts, b)
           /\ Count(cache.pair_counts, Sorted(<<a, b>>)) > 0
           /\ ret.val = get_lift(cache, a, b).val
           /\ ret.val # Zero
           /\ ret.val # One

\* the analyzer an and the store c return the same support, confidence and lift
\* for the items a and b
SameMeasures(an, c, a, b) ==
    /\ calculate_support(an, <<a>>) = get_support(c, <<a>>).val
    /\ calculate_support(an, <<a, b>>) = get_support(c, <<a, b>>).val
    /\ calculate_confidence(an, a, b) = get_confidence(c, a, b).val
    /\ calculate_lift(an, a, b) = get_lift(c, a, b).val

\* C29: whatever datasets the analyzer has analysed, for all items a and b (a = b
\* and items not in the dataset included) its calculate_support,
\* calculate_confidence and calculate_lift return what get_support, get_confidence
\* and get_lift return on a store into which the analyzer's baskets were ingested.
C29_BatchMeasuresEqualStore ==
    LET c == Batched(analyzer.transaction_baskets)
    IN  \A a, b \in Products : SameMeasures(analyzer, c, a, b)

\* C30: a process_new_transaction call adds exactly 1 to total_transactions and
\* ingests one basket, the set of the products of all rows of the table, whatever
\* transaction ids the rows carry; when the table is not empty and all its rows
\* carry one transaction id, the store is left with the counts and products that
\* process_new_batch on the same table would leave.
C30_OneBasketPerCall ==
    [][last_call'.op = "process_new_transaction" =>
          /\ cache'.total_transactions = cache.total_transactions + 1
          /\ ingested' = ingested (+) SetToBag({ProductIds(line_items)})
          /\ \A baskets \in SetObjectLists(<<ProductIds(line_items)>>) :
                 LET merged == update_with_batch(cache, baskets)
                 IN  SameCounts(cache', merged) /\ cache'.all_products = merged.all_products
          /\ (line_items # <<>> /\ ~MissingIdentifier /\ Cardinality(Identifiers) = 1) =>
                 \A baskets \in SetObjectLists(GroupSets(line_items)) :
                     LET batch == update_with_batch(cache, baskets)
                     IN  SameCounts(cache', batch) /\ cache'.all_products = batch.all_products
         ]_<<cache, last_call>>

\* process_new_transaction was called on two line items of two transactions with
\* different products, and the store holds one basket with the pair of them
C30_Witness ==
    /\ last_call.op = "process_new_transaction"
    /\ Cardinality(Identifiers) = 2
    /\ cache.total_transactions = 1
    /\ Len(cache.pair_counts) = 1
    /\ cache.pair_counts[1][2] = 1

\* process_new_transaction was called on two line items of one transaction
C30_WitnessOneTransaction ==
    /\ last_call.op = "process_new_transaction"
    /\ Len(line_items) = 2
    /\ ~MissingIdentifier
    /\ Cardinality(Identifiers) = 1
    /\ cache.pair_counts # <<>>
====
